---- MODULE Spec2Model ----
(***************************************************************************)
(* Model of gallery_dl/extractor/hotleak.py: the four extractor variants   *)
(* (post, creator, category, search), their two pagination algorithms and  *)
(* the messages they hand to the pipeline.  The HTTP server is the         *)
(* environment: every request is answered with a status chosen by \E.      *)
(***************************************************************************)
EXTENDS Integers, Sequences, FiniteSets, TLC

VARIABLES
    variant,    \* which extractor class the URL pattern selected
    category,   \* HotleakCategoryExtractor._category
    query,      \* self.params of the category and search variants
    ptype,      \* HotleakPostExtractor.type
    feed,       \* server side: the creator's JSON pages
    pc,         \* position of the running generator
    raised,     \* the exception that ended the run, "none" otherwise
    params,     \* the request parameters of the pagination
    response,   \* local variable response: <<>> unbound, <<body>> bound
    posts,      \* local variable posts
    idx,        \* position of the for loop in posts
    data,       \* the dict the creator pagination fills and yields
    yielded,    \* what posts() / _pagination() has yielded so far
    messages,   \* what items() has yielded so far
    requests,   \* log of the calls of self.request()
    waits       \* log of the calls of self.wait()

vars == <<variant, category, query, ptype, feed, pc, raised, params, response,
          posts, idx, data, yielded, messages, requests, waits>>

(* ------------------------------ bounds -------------------------------- *)
MaxFeed == 3
MaxFaults == 2
MaxTokens == 3
MaxHtmlRequests == 3

(* ------------------------- program constants -------------------------- *)
root == "https://hotleak.vip"
Creator == "kaiyakawaii"
PostIdDigits == <<"1", "6">>
Categories == {"hot", "creators", "videos", "photos"}

SeqsOf(S, lo, hi) == UNION {[1..n -> S] : n \in lo..hi}

(* ------------------------- text helpers ------------------------------- *)
Digits == <<"0", "1", "2", "3", "4", "5", "6", "7", "8", "9">>
IsDigit(c) == \E d \in 1..10 : Digits[d] = c
DigitVal(c) == (CHOOSE d \in 1..10 : Digits[d] = c) - 1

RECURSIVE DigitsVal(_)
DigitsVal(s) ==
    IF s = <<>> THEN 0
    ELSE 10 * DigitsVal(SubSeq(s, 1, Len(s) - 1)) + DigitVal(s[Len(s)])

AllDigits(s) == s # <<>> /\ \A i \in 1..Len(s) : IsDigit(s[i])

\* int(value) of a string of characters; <<>> stands for ValueError
IntOf(s) ==
    IF AllDigits(s) THEN <<DigitsVal(s)>>
    ELSE IF s # <<>> /\ s[1] = "-" /\ AllDigits(Tail(s))
         THEN <<0 - DigitsVal(Tail(s))>>
    ELSE IF s # <<>> /\ s[1] = "+" /\ AllDigits(Tail(s))
         THEN <<DigitsVal(Tail(s))>>
    ELSE <<>>

\* text.parse_int(value, default); opt = <<>> is None, <<s>> is the string s
parse_int(opt, default) ==
    IF opt = <<>> \/ opt[1] = <<>> THEN default
    ELSE IF IntOf(opt[1]) = <<>> THEN default
    ELSE IntOf(opt[1])[1]

\* text.parse_int of a JSON number
parse_int_num(value, default) == IF value = 0 THEN default ELSE value

\* text.parse_query(qs): qs = <<>> is None, <<pairs>> a query string split
\* into its key=value pairs; the first value of a key is kept
RECURSIVE parse_pairs(_, _)
parse_pairs(pairs, result) ==
    IF pairs = <<>> THEN result
    ELSE parse_pairs(Tail(pairs),
            IF pairs[1][1] \in DOMAIN result THEN result
            ELSE result @@ (pairs[1][1] :> pairs[1][2]))

EmptyDict == [k \in {} |-> <<>>]
parse_query(qs) == IF qs = <<>> THEN EmptyDict ELSE parse_pairs(qs[1], EmptyDict)

\* dict.get(key): <<>> is None
Get(d, key) == IF key \in DOMAIN d THEN <<d[key]>> ELSE <<>>

(* ----------------------------- fetch ---------------------------------- *)
\* Extractor.request(): the exception raised for a response status
request(status, notfound) ==
    IF status = 200 THEN "none"
    ELSE IF notfound /\ status = 404 THEN "NotFoundError"
    ELSE "HttpError"

Statuses == {200, 404, 429, 500}
Resets == {"none", "1700000000"}

Count(status) == Cardinality({i \in 1..Len(requests) : requests[i].status = status})

\* the 429 and 500 answers of the run so far
Faults == Count(429) + Count(500)

\* one entry of the request log
Logged(status, reset, n, marker) ==
    [page |-> params.page, status |-> status, reset |-> reset,
     before |-> Len(yielded), items |-> n, marker |-> marker]

(* ------------------------- server content ----------------------------- *)
PostTypes == {0, 1, 2}
PostId(p, i) == 10 * p + i

PostObject(p, i, t) ==
    [id |-> PostId(p, i), type |-> t,
     image |-> "images/" \o ToString(PostId(p, i)) \o "/f.jpg",
     stream_url_play |-> "https://cdn/" \o ToString(PostId(p, i)) \o "/index.m3u8"]

\* the ways to lay out at most n posts in non-empty pages, as their types
RECURSIVE TypeFeeds(_)
TypeFeeds(n) ==
    {<<>>} \cup
    UNION {{<<pg>> \o rest : rest \in TypeFeeds(n - Len(pg))} :
              pg \in SeqsOf(PostTypes, 1, n)}

Feeds ==
    {[p \in 1..Len(ts) |-> [i \in 1..Len(ts[p]) |-> PostObject(p, i, ts[p][i])]] :
        ts \in TypeFeeds(MaxFeed)}

\* the JSON array the endpoint serves for a page
ServerPage(p) == IF p \in 1..Len(feed) THEN feed[p] ELSE <<>>

(* --------------------- HotleakCreatorExtractor ------------------------ *)
Message == [Directory |-> "Directory", Url |-> "Url", Queue |-> "Queue"]

CaughtAny(exc) == exc \in {"HttpError", "NotFoundError"}

\* except exception.HttpError as exc
Caught(exc) == exc = "HttpError"

NeverRateLimit(status) == FALSE

\* if exc.response.status_code == 429
IsRateLimit(status) == status = 429

NeverNoPosts(body) == FALSE

\* if not posts: return
NoPosts(body) == body = <<>>

NextPageSkip(p) == [p EXCEPT !.page = @ + 2]

\* params["page"] += 1
NextPage(p) == [p EXCEPT !.page = @ + 1]

\* the body of the for loop up to the yield
Build(d, post) ==
    LET d1 == ("id" :> parse_int_num(post.id, 0)) @@ d
    IN  IF post.type = 0
        THEN ("type" :> "photo") @@
             ("url" :> root \o "/storage/" \o post.image) @@ d1
        ELSE IF post.type = 1
        THEN ("type" :> "video") @@
             ("url" :> "ytdl:" \o post.stream_url_play) @@ d1
        ELSE d1

PageCap == MaxFeed + MaxFaults + 2

CreatorStart ==
    /\ variant = "creator" /\ pc = "start"
    /\ params' = [page |-> 1]
    /\ pc' = "request"
    /\ UNCHANGED <<variant, category, query, ptype, feed, raised, response,
                   posts, idx, data, yielded, messages, requests, waits>>

\* posts = response.json() and what follows, up to the first yield
Consume(body) ==
    IF NoPosts(body)
    THEN /\ pc' = "done"
         /\ UNCHANGED <<params, posts, idx, data, raised>>
    ELSE /\ posts' = body
         /\ data' = [creator |-> Creator]
         /\ UNCHANGED raised
         /\ IF body = <<>>
            THEN /\ params' = NextPage(params)
                 /\ pc' = "request"
                 /\ UNCHANGED idx
            ELSE /\ pc' = "yield"
                 /\ idx' = 1
                 /\ UNCHANGED params

Raise(exc) ==
    /\ pc' = "raised"
    /\ raised' = exc
    /\ UNCHANGED <<params, posts, idx, data>>

\* one pass through the try statement, and through the lines after it up to
\* the first yield
CreatorRequest ==
    /\ variant = "creator" /\ pc = "request"
    /\ params.page <= PageCap
    /\ \E status \in Statuses, reset \in Resets :
        LET exc == request(status, TRUE) IN
        /\ status \in {429, 500} => Faults < MaxFaults
        /\ status # 429 => reset = "none"
        /\ requests' = Append(requests,
               Logged(status, reset,
                      IF status = 200 THEN Len(ServerPage(params.page)) ELSE 0,
                      FALSE))
        /\ IF exc = "none"
           THEN /\ response' = <<ServerPage(params.page)>>
                /\ waits' = waits
                /\ Consume(ServerPage(params.page))
           ELSE IF ~Caught(exc)
           THEN /\ Raise(exc)
                /\ UNCHANGED <<response, waits>>
           ELSE IF IsRateLimit(status)
           THEN /\ waits' = Append(waits, [until |-> reset, at |-> Len(requests')])
                /\ UNCHANGED <<pc, raised, params, response, posts, idx, data>>
           ELSE /\ UNCHANGED <<response, waits>>
                /\ IF response = <<>>
                   THEN Raise("UnboundLocalError")
                   ELSE Consume(response[1])
    /\ UNCHANGED <<variant, category, query, ptype, feed, yielded, messages>>

\* HotleakExtractor.items() for one post
Emit(post) ==
    IF "url" \in DOMAIN post
    THEN <<[kind |-> Message.Directory, post |-> post],
           [kind |-> Message.Url, url |-> post.url, post |-> post]>>
    ELSE <<[kind |-> Message.Directory, post |-> post]>>

\* one iteration of the for loop: the yield, items() consuming the record,
\* and the end of the loop after the last post
CreatorYield ==
    /\ variant = "creator" /\ pc = "yield"
    /\ data' = Build(data, posts[idx])
    /\ yielded' = Append(yielded, data')
    /\ messages' = messages \o Emit(data')
    /\ IF "url" \notin DOMAIN data'
       THEN /\ pc' = "raised"
            /\ raised' = "KeyError"
            /\ UNCHANGED <<params, idx>>
       ELSE /\ UNCHANGED raised
            /\ IF idx < Len(posts)
               THEN /\ idx' = idx + 1
                    /\ UNCHANGED <<params, pc>>
               ELSE /\ params' = NextPage(params)
                    /\ pc' = "request"
                    /\ UNCHANGED idx
    /\ UNCHANGED <<variant, category, query, ptype, feed, response, posts,
                   requests, waits>>

(* ------------------- HotleakExtractor._pagination --------------------- *)
\* A listing page is a sequence of tokens: the two delimiters, and anchors
\* <a href="..."> written as their href.
ItemBegin == "<article class=\"movie-item"
ItemEnd == "</article>"
Hrefs == {"/alice", "/bob/photo/7"}
HtmlTokens == {ItemBegin, ItemEnd} \cup Hrefs
HtmlPages == SeqsOf(HtmlTokens, 0, MaxTokens)

\* str.index(tok, pos): 0 stands for ValueError
Index(txt, tok, pos) ==
    IF \E i \in pos..Len(txt) : txt[i] = tok
    THEN CHOOSE i \in pos..Len(txt) :
            txt[i] = tok /\ \A j \in pos..(i - 1) : txt[j] # tok
    ELSE 0

\* text.extract_iter(txt, ItemBegin, ItemEnd, pos)
RECURSIVE extract_iter(_, _)
extract_iter(txt, pos) ==
    LET first == Index(txt, ItemBegin, pos) IN
    IF first = 0 THEN <<>>
    ELSE LET last == Index(txt, ItemEnd, first + 1) IN
         IF last = 0 THEN <<>>
         ELSE <<SubSeq(txt, first + 1, last - 1)>> \o extract_iter(txt, last + 1)

\* text.extract(item, '<a href="', '"')[0]
extract_href(item) ==
    IF \E i \in 1..Len(item) : item[i] \in Hrefs
    THEN item[CHOOSE i \in 1..Len(item) :
                item[i] \in Hrefs /\ \A j \in 1..(i - 1) : item[j] \notin Hrefs]
    ELSE "None"

\* the URLs the for loop yields for one page
PageUrls(txt) ==
    LET items == extract_iter(txt, 1)
    IN  [i \in 1..Len(items) |-> extract_href(items[i])]

\* whether the page holds the literal '</article>'
HasMarker(txt) == \E i \in 1..Len(txt) : txt[i] = ItemEnd

LastPageNoItems(txt) == PageUrls(txt) = <<>>

\* if "</article>" not in page: return
LastPage(txt) == \A i \in 1..Len(txt) : txt[i] # ItemEnd

FirstPageOne(p) == 1

\* params["page"] = text.parse_int(params.get("page"), 1)
FirstPage(p) == parse_int(Get(p, "page"), 1)

ExtractorSwapped(v, c) ==
    IF v = "search" THEN "HotleakCreatorExtractor"
    ELSE IF c \in {"hot", "creators"} THEN "HotleakPostExtractor"
    ELSE "HotleakCreatorExtractor"

\* data = {"_extractor": ...} of the category and search variants
ExtractorFor(v, c) ==
    IF v = "search" THEN "HotleakCreatorExtractor"
    ELSE IF c \in {"hot", "creators"} THEN "HotleakCreatorExtractor"
    ELSE IF c \in {"videos", "photos"} THEN "HotleakPostExtractor"
    ELSE "unbound"

\* yield Message.Queue, item, data
Queue(urls) ==
    [i \in 1..Len(urls) |->
        [kind |-> Message.Queue, url |-> urls[i],
         extractor |-> ExtractorFor(variant, category)]]

HtmlStart ==
    /\ variant \in {"category", "search"} /\ pc = "start"
    /\ params' = ("page" :> FirstPage(parse_query(query))) @@ parse_query(query)
    /\ pc' = "request"
    /\ UNCHANGED <<variant, category, query, ptype, feed, raised, response,
                   posts, idx, data, yielded, messages, requests, waits>>

\* one iteration of the while loop
HtmlRequest ==
    /\ variant \in {"category", "search"} /\ pc = "request"
    /\ Len(requests) < MaxHtmlRequests
    /\ \E status \in Statuses, txt \in HtmlPages :
        LET exc == request(status, FALSE) IN
        /\ status # 200 => txt = <<>>
        /\ requests' = Append(requests,
               Logged(status, "none",
                      IF status = 200 THEN Len(PageUrls(txt)) ELSE 0,
                      status = 200 /\ HasMarker(txt)))
        /\ IF exc # "none"
           THEN /\ pc' = "raised"
                /\ raised' = exc
                /\ UNCHANGED <<params, yielded, messages>>
           ELSE IF LastPage(txt)
           THEN /\ pc' = "done"
                /\ UNCHANGED <<raised, params, yielded, messages>>
           ELSE /\ yielded' = yielded \o PageUrls(txt)
                /\ messages' = messages \o Queue(PageUrls(txt))
                /\ params' = NextPage(params)
                /\ UNCHANGED <<pc, raised>>
    /\ UNCHANGED <<variant, category, query, ptype, feed, response, posts,
                   idx, data, waits>>

(* ----------------------- HotleakPostExtractor ------------------------- *)
\* A post page: whether it holds the '<div class="movie-image thumb">' block
\* and whether the block holds the media attribute (data-src or "src")
PostPages == [block : BOOLEAN, media : BOOLEAN]

PhotoUrl == "https://hotleak.vip/storage/images/3625/16/f.jpg"
VideoUrl == "https://cdn8-leak.camhdxx.com/1661/16/index.m3u8"

\* the record posts() builds from a page that has the media attribute
PostData(url) ==
    [id |-> parse_int(<<PostIdDigits>>, 0), creator |-> Creator,
     type |-> ptype, url |-> url]

\* posts() and items() of the post variant
PostRun ==
    /\ variant = "post" /\ pc = "start"
    /\ params' = params
    /\ \E status \in Statuses, txt \in PostPages :
        LET exc == request(status, FALSE)
            found == txt.block /\ txt.media
        IN
        /\ status # 200 => txt = [block |-> FALSE, media |-> FALSE]
        /\ requests' = Append(requests,
               [page |-> 0, status |-> status, reset |-> "none",
                before |-> 0, items |-> 0, marker |-> FALSE])
        /\ IF exc # "none"
           THEN /\ pc' = "raised"
                /\ raised' = exc
                /\ UNCHANGED <<yielded, messages>>
           ELSE IF ptype = "video" /\ ~found
           THEN /\ pc' = "raised"
                /\ raised' = "TypeError"
                /\ UNCHANGED <<yielded, messages>>
           ELSE LET url == IF ptype = "video" THEN "ytdl:" \o VideoUrl
                           ELSE IF found THEN PhotoUrl ELSE "None"
                IN  /\ yielded' = <<PostData(url)>>
                    /\ messages' = Emit(PostData(url))
                    /\ pc' = "done"
                    /\ UNCHANGED raised
    /\ UNCHANGED <<variant, category, query, ptype, feed, response, posts,
                   idx, data, waits>>

(* ------------------------------ inputs -------------------------------- *)
Variants == {"post", "creator", "category", "search"}

\* values of a page= parameter, as strings of characters
PageValues == {<<"5">>, <<"0">>, <<"1", "2">>, <<"-", "2">>, <<"x">>}

QueryStrings ==
    {<<>>, <<<<"search", <<"a">>>>>>}
    \cup {<<<<"page", v>>>> : v \in PageValues}
    \cup {<<<<"search", <<"a">>>>, <<"page", v>>>> : v \in PageValues}

\* match.groups() of the category and search patterns: <<>> is None
Queries(v) ==
    IF v = "search" THEN {<<q>> : q \in QueryStrings}
    ELSE IF v = "category" THEN {<<>>} \cup {<<q>> : q \in QueryStrings}
    ELSE {<<>>}

Init ==
    /\ variant \in Variants
    /\ category \in (IF variant = "category" THEN Categories ELSE {"none"})
    /\ query \in Queries(variant)
    /\ ptype \in (IF variant = "post" THEN {"photo", "video"} ELSE {"none"})
    /\ feed \in (IF variant = "creator" THEN Feeds ELSE {<<>>})
    /\ pc = "start"
    /\ raised = "none"
    /\ params = EmptyDict
    /\ response = <<>>
    /\ posts = <<>>
    /\ idx = 0
    /\ data = EmptyDict
    /\ yielded = <<>>
    /\ messages = <<>>
    /\ requests = <<>>
    /\ waits = <<>>

Next ==
    \/ CreatorStart
    \/ CreatorRequest
    \/ CreatorYield
    \/ HtmlStart
    \/ HtmlRequest
    \/ PostRun

Spec == Init /\ [][Next]_vars

\* the generator is driven by a consumer that keeps pulling
LiveSpec == Spec /\ WF_vars(Next)

(* ============================ properties ============================== *)
Ended == pc \in {"done", "raised"}
Reqs == 1..Len(requests)
Html == variant \in {"category", "search"}
WaitsAt(i) == {w \in 1..Len(waits) : waits[w].at = i}

\* C1: in the creator pagination a page request that fails with a non-429
\* HttpError ends the run with that HttpError: it is the last request, no
\* record is yielded after it and the page counter is not advanced.
C1_OtherHttpErrorPropagates ==
    variant = "creator" =>
        \A i \in Reqs :
            requests[i].status = 500 =>
                /\ i = Len(requests)
                /\ pc = "raised" /\ raised = "HttpError"
                /\ Len(yielded) = requests[i].before
                /\ params.page = requests[i].page

\* C2: the creator pagination's first request carries page=1; a 429 answer is
\* followed by exactly one wait(until = its X-RateLimit-Reset header) and a
\* request for the same page; a non-empty array is followed by a request for
\* page+1; successive requests never go back and never skip a page.
C2_PageSequence ==
    variant = "creator" =>
        /\ requests # <<>> => requests[1].page = 1
        /\ Len(waits) = Count(429)
        /\ \A i \in Reqs :
            /\ requests[i].status = 429 =>
                /\ Cardinality(WaitsAt(i)) = 1
                /\ \A w \in WaitsAt(i) : waits[w].until = requests[i].reset
                /\ i < Len(requests) => requests[i + 1].page = requests[i].page
            /\ (requests[i].status = 200 /\ requests[i].items > 0
                    /\ i < Len(requests)) =>
                requests[i + 1].page = requests[i].page + 1
            /\ i < Len(requests) =>
                requests[i + 1].page - requests[i].page \in {0, 1}

C2_Witness ==
    /\ variant = "creator"
    /\ \E i, j \in Reqs :
        /\ i < j /\ j < Len(requests)
        /\ requests[i].status = 200 /\ requests[i].items > 0
        /\ requests[j].status = 429 /\ requests[j].reset # "none"

\* the posts of the feed in page order and array order
RECURSIVE Flatten(_)
Flatten(pages) ==
    IF pages = <<>> THEN <<>> ELSE pages[1] \o Flatten(Tail(pages))

\* the record of a photo or video post object
Expected(post) ==
    [creator |-> Creator, id |-> post.id,
     type |-> IF post.type = 0 THEN "photo" ELSE "video",
     url |-> IF post.type = 0 THEN root \o "/storage/" \o post.image
             ELSE "ytdl:" \o post.stream_url_play]

DocumentedTypes == \A k \in 1..Len(Flatten(feed)) : Flatten(feed)[k].type \in {0, 1}
Only200And429 == \A i \in Reqs : requests[i].status \in {200, 429}

\* C3: when the endpoint answers only with its arrays (photo and video
\* objects) and with 429s, the creator variant ends normally having yielded
\* exactly one record per post of pages 1..k-1, in page and array order,
\* wherever the 429s fall.
C3_AllPostsOnce ==
    (variant = "creator" /\ Ended /\ Only200And429 /\ DocumentedTypes) =>
        /\ pc = "done"
        /\ yielded = [k \in 1..Len(Flatten(feed)) |-> Expected(Flatten(feed)[k])]

C3_Witness ==
    /\ variant = "creator" /\ pc = "done" /\ Only200And429 /\ DocumentedTypes
    /\ Len(feed) = 2 /\ Len(yielded) = 3
    /\ Count(429) = 2
    /\ \E i, j \in Reqs : i < j /\ requests[i].status = 200 /\ requests[j].status = 429

\* C4: once the creator endpoint answers with an empty array the pagination
\* is over: that request is the last, no wait follows and no record is
\* yielded after it.
C4_EmptyArrayEnds ==
    variant = "creator" =>
        \A i \in Reqs :
            (requests[i].status = 200 /\ requests[i].items = 0) =>
                /\ i = Len(requests)
                /\ pc = "done"
                /\ Len(yielded) = requests[i].before
                /\ \A w \in 1..Len(waits) : waits[w].at < i

\* C4 (whole claim): the above, and with finitely many 429s and an empty
\* array after the last page the creator pagination eventually ends.
C4_Terminates ==
    /\ []C4_EmptyArrayEnds
    /\ (variant = "creator") => <>Ended

C4_Witness ==
    /\ variant = "creator" /\ pc = "done"
    /\ Len(feed) = 2
    /\ Count(429) = 2
    /\ requests[Len(requests)].items = 0

\* C5 as stated: the HTML pagination overwrites the query's page parameter,
\* so its first request carries page=1 and every request a page >= 1.
C5_FirstPageIsOne ==
    (Html /\ requests # <<>>) =>
        /\ requests[1].page = 1
        /\ \A i \in Reqs : requests[i].page >= 1

\* the integer a page= value of the query denotes, 1 when it denotes none
Denoted(v) ==
    CASE v = <<"5">> -> 5
      [] v = <<"0">> -> 0
      [] v = <<"1", "2">> -> 12
      [] v = <<"-", "2">> -> 0 - 2
      [] OTHER -> 1

\* the value of the query's page parameter, <<>> when it has none
QueryPage ==
    IF query = <<>> THEN <<>>
    ELSE LET at == {k \in 1..Len(query[1]) : query[1][k][1] = "page"}
         IN  IF at = {} THEN <<>> ELSE <<query[1][CHOOSE k \in at : TRUE][2]>>

\* C5 as amended: the first request of the HTML pagination carries the
\* integer the query's page parameter denotes, and 1 when the query has no
\* page parameter or one that is not an integer; every later request carries
\* the page of the request before it plus 1.
C5_FirstPageFromQuery ==
    (Html /\ requests # <<>>) =>
        /\ requests[1].page = IF QueryPage = <<>> THEN 1 ELSE Denoted(QueryPage[1])
        /\ \A i \in Reqs :
            i < Len(requests) => requests[i + 1].page = requests[i].page + 1

C5_Witness ==
    /\ Html /\ QueryPage = <<<<"5">>>>
    /\ Len(requests) >= 2
    /\ requests[1].page = 5 /\ requests[2].page = 6

\* C6 as stated: the HTML pagination ends at the first fetched page from
\* which no URL is extracted: no request and no URL follows it.
C6_StopsAtFirstEmptyPage ==
    Html =>
        \A i \in Reqs :
            (requests[i].status = 200 /\ requests[i].items = 0) =>
                /\ i = Len(requests)
                /\ Len(yielded) = requests[i].before

\* C6 as amended: the HTML pagination ends at the first fetched page that
\* does not hold the literal '</article>', with no further request and no
\* further URL; a page that holds it is followed by a request for the next
\* page, also when no URL is extracted from it.
C6_StopsAtMissingMarker ==
    Html =>
        \A i \in Reqs :
            /\ (requests[i].status = 200 /\ ~requests[i].marker) =>
                /\ i = Len(requests)
                /\ pc = "done"
                /\ Len(yielded) = requests[i].before
                /\ Len(messages) = requests[i].before
            /\ (requests[i].status = 200 /\ requests[i].marker) =>
                /\ i = Len(requests) =>
                    /\ pc = "request"
                    /\ params.page = requests[i].page + 1
                    /\ Len(yielded) = requests[i].before + requests[i].items
                /\ i < Len(requests) =>
                    requests[i + 1].page = requests[i].page + 1

C6_Witness ==
    /\ variant = "search" /\ pc = "done"
    /\ Len(requests) = 3
    /\ requests[1].marker /\ requests[1].items > 0
    /\ requests[2].marker /\ requests[2].items = 0
    /\ requests[3].status = 200 /\ ~requests[3].marker

\* C7: when the post page is absent (HTTP 404) the post variant fails with
\* NotFoundError and emits no message.
C7_PostNotFound ==
    (variant = "post" /\ requests # <<>> /\ requests[1].status = 404) =>
        /\ pc = "raised" /\ raised = "NotFoundError"
        /\ messages = <<>>

\* C8: when a page request of the creator variant finds the creator absent,
\* the run ends at once with NotFoundError: no wait, no retry, no further
\* request and no further record.
C8_CreatorNotFound ==
    variant = "creator" =>
        \A i \in Reqs :
            requests[i].status = 404 =>
                /\ i = Len(requests)
                /\ pc = "raised" /\ raised = "NotFoundError"
                /\ WaitsAt(i) = {}
                /\ Len(yielded) = requests[i].before
                /\ params.page = requests[i].page

C8_Witness ==
    /\ variant = "creator" /\ raised = "NotFoundError"
    /\ Len(requests) >= 2 /\ yielded # <<>>
    /\ requests[Len(requests)].status = 404

\* C9: every record the creator variant yields has a url, built from the
\* post object its id comes from, so that items() emits a Url message for
\* every Directory message.
C9_UrlPresent ==
    variant = "creator" =>
        /\ \A k \in 1..Len(yielded) :
            /\ "url" \in DOMAIN yielded[k]
            /\ \E n \in 1..Len(Flatten(feed)) :
                LET post == Flatten(feed)[n] IN
                /\ post.id = yielded[k].id
                /\ yielded[k].url \in {root \o "/storage/" \o post.image,
                                       "ytdl:" \o post.stream_url_play}
        /\ Cardinality({m \in 1..Len(messages) : messages[m].kind = "Url"})
            = Cardinality({m \in 1..Len(messages) : messages[m].kind = "Directory"})

\* C10: the category variant emits only Queue messages, one per URL the
\* HTML pagination yields and in that order, tagged with the creator
\* extractor for "hot" and "creators" and with the post extractor for
\* "videos" and "photos".
C10_CategoryQueues ==
    variant = "category" =>
        /\ Len(messages) = Len(yielded)
        /\ \A k \in 1..Len(messages) :
            /\ messages[k].kind = "Queue"
            /\ messages[k].url = yielded[k]
            /\ category \in {"hot", "creators"} =>
                messages[k].extractor = "HotleakCreatorExtractor"
            /\ category \in {"videos", "photos"} =>
                messages[k].extractor = "HotleakPostExtractor"

C10_Witness ==
    /\ variant = "category" /\ category = "photos"
    /\ Len(requests) >= 2 /\ Len(messages) >= 2
    /\ messages[1].extractor = "HotleakPostExtractor"

====
